---------------------------- MODULE Spec2Model ----------------------------
(***************************************************************************)
(* A model of parse_whois_json (src/parser.py): the recursive key search,  *)
(* the alias resolver and the per-field normalisation of a decoded WHOIS   *)
(* document into the ten-field record.                                     *)
(*                                                                         *)
(* A decoded JSON value is a record [t, s, keys, kids]:                    *)
(*   t = "null"                      Python None                           *)
(*   t = "str",  s    = characters   Python str (a sequence of 1-char      *)
(*                                   strings, so that lower(), strip() and *)
(*                                   re.split() act on characters)         *)
(*   t = "list", kids = elements     Python list                           *)
(*   t = "map",  keys/kids           Python dict, in insertion order       *)
(* Python has one None: a JSON null and "no value found" are the same      *)
(* object, and so they are the same value None here.                       *)
(***************************************************************************)
EXTENDS Naturals, Sequences, FiniteSets

VARIABLES
    whois_data,        \* the argument of parse_whois_json
    pc,                \* the position in the run
    target,            \* the keys a helper was called with
    result,            \* what the helper returned
    parsed_data,       \* the record under construction
    registrant_info,   \* local of parse_whois_json
    raw_nameservers,   \* local of parse_whois_json
    items_to_process,  \* local of parse_whois_json
    nameserver_list    \* local of parse_whois_json

vars == <<whois_data, pc, target, result, parsed_data, registrant_info,
          raw_nameservers, items_to_process, nameserver_list>>

---------------------------------------------------------------------------
(* Values *)

None == [t |-> "null", s |-> <<>>, keys |-> <<>>, kids |-> <<>>]

Str(cs) == [t |-> "str", s |-> cs, keys |-> <<>>, kids |-> <<>>]

List(items) == [t |-> "list", s |-> <<>>, keys |-> <<>>, kids |-> items]

Map(ks, vs) == [t |-> "map", s |-> <<>>, keys |-> ks, kids |-> vs]

Range(f) == {f[i] : i \in 1..Len(f)}

IsStr(v) == v.t = "str"

IsList(v) == v.t = "list"

IsDict(v) == v.t = "map"

\* `k in d`
HasKey(d, k) == k \in Range(d.keys)

\* d[k] for a key that is there
Item(d, k) == d.kids[CHOOSE i \in 1..Len(d.keys) : d.keys[i] = k]

\* d.get(k)
DictGet(d, k) == IF HasKey(d, k) THEN Item(d, k) ELSE None

\* bool(v): None, "", [] and {} are false
Truthy(v) ==
    CASE v.t = "null" -> FALSE
      [] v.t = "str"  -> v.s # <<>>
      [] v.t = "list" -> v.kids # <<>>
      [] v.t = "map"  -> v.keys # <<>>

\* `a or b`
Or(a, b) == IF Truthy(a) THEN a ELSE b

---------------------------------------------------------------------------
(* The recursive key search and the alias resolver *)

RECURSIVE FindPreOrderIn(_, _, _, _)
RECURSIVE FindKeyPreOrder(_, _)
\* A search that takes the entries of a dict strictly in insertion order, each
\* key before the value under it, and never looks at the dict as a whole.
FindKeyPreOrder(data, target_key) ==
    IF IsDict(data) \/ IsList(data)
    THEN FindPreOrderIn(data, target_key, 1, IsDict(data))
    ELSE None

FindPreOrderIn(data, target_key, i, keyed) ==
    IF i > Len(data.kids) THEN None
    ELSE IF keyed /\ data.keys[i] = target_key /\ data.kids[i] # None
         THEN data.kids[i]
         ELSE LET r == FindKeyPreOrder(data.kids[i], target_key)
              IN IF r # None THEN r
                 ELSE FindPreOrderIn(data, target_key, i + 1, keyed)

RECURSIVE FindSkipNullIn(_, _, _)
RECURSIVE FindKeySkipNull(_, _)
\* A search that takes a key held with None for a key that is not there, and
\* goes on into the dict's values.
FindKeySkipNull(data, target_key) ==
    IF IsDict(data) /\ HasKey(data, target_key) /\ Item(data, target_key) # None
    THEN Item(data, target_key)
    ELSE IF IsDict(data) \/ IsList(data)
         THEN FindSkipNullIn(data.kids, target_key, 1)
         ELSE None

FindSkipNullIn(values, target_key, i) ==
    IF i > Len(values) THEN None
    ELSE LET r == FindKeySkipNull(values[i], target_key)
         IN IF r # None THEN r ELSE FindSkipNullIn(values, target_key, i + 1)

RECURSIVE FindLastIn(_, _, _)
RECURSIVE FindKeyLastFirst(_, _)
\* A search that walks the values of a container from the last to the first.
FindKeyLastFirst(data, target_key) ==
    IF IsDict(data) /\ HasKey(data, target_key)
    THEN Item(data, target_key)
    ELSE IF IsDict(data) \/ IsList(data)
         THEN FindLastIn(data.kids, target_key, Len(data.kids))
         ELSE None

FindLastIn(values, target_key, i) ==
    IF i < 1 THEN None
    ELSE LET r == FindKeyLastFirst(values[i], target_key)
         IN IF r # None THEN r ELSE FindLastIn(values, target_key, i - 1)

RECURSIVE FirstResult(_, _, _)
RECURSIVE _find_key_recursively(_, _)
\* def _find_key_recursively(data, target_key)
_find_key_recursively(data, target_key) ==
    IF IsDict(data)
    THEN IF HasKey(data, target_key)
         THEN Item(data, target_key)
         ELSE FirstResult(data.kids, target_key, 1)
    ELSE IF IsList(data)
         THEN FirstResult(data.kids, target_key, 1)
         ELSE None

\* The two `for` loops of _find_key_recursively, from the i-th value on: the
\* first result that is not None, or None when the loop runs out.
FirstResult(values, target_key, i) ==
    IF i > Len(values) THEN None
    ELSE LET r == _find_key_recursively(values[i], target_key)
         IN IF r # None THEN r ELSE FirstResult(values, target_key, i + 1)

RECURSIVE GetValueFrom(_, _, _)
\* The `for key in keys` loop of _get_value from the i-th key on.
GetValueFrom(data, keys, i) ==
    IF i > Len(keys) THEN None
    ELSE LET value == _find_key_recursively(data, keys[i])
         IN IF value # None THEN value ELSE GetValueFrom(data, keys, i + 1)

RECURSIVE GetValueBackFrom(_, _, _)
GetValueBackFrom(data, keys, i) ==
    IF i < 1 THEN None
    ELSE LET value == _find_key_recursively(data, keys[i])
         IN IF value # None THEN value ELSE GetValueBackFrom(data, keys, i - 1)

\* A resolver that tries the keys from the last to the first.
GetValueLastFirst(data, keys) == GetValueBackFrom(data, keys, Len(keys))

\* def _get_value(*keys), with the whois_data it closes over as `data`
_get_value(data, keys) == GetValueFrom(data, keys, 1)

---------------------------------------------------------------------------
(* Documents for the helpers: every tree of at most MaxNodes nodes over two *)
(* keys and three leaves.                                                  *)

MaxNodes == 6

SearchKeys == {"a", "b"}

SearchLeaves == {None, Str(<<"v">>), Str(<<"w">>)}

\* The sequences of n different keys
KeySeqs(K, n) ==
    IF n > Cardinality(K) THEN {}
    ELSE {ks \in [1..n -> K] : \A i, j \in 1..n : i # j => ks[i] # ks[j]}

RECURSIVE TreesOfSize(_)
RECURSIVE ForestsOfSize(_)
\* The sequences of trees with m nodes in all
ForestsOfSize(m) ==
    IF m = 0 THEN {<<>>}
    ELSE UNION {{<<tr>> \o f : tr \in TreesOfSize(n), f \in ForestsOfSize(m - n)}
                : n \in 1..m}

\* The trees of n nodes: a leaf, or a list or a dict of trees with n - 1 nodes
\* in all
TreesOfSize(n) ==
    IF n = 1 THEN SearchLeaves
    ELSE LET fs == ForestsOfSize(n - 1)
         IN {List(f) : f \in fs}
            \cup UNION {{Map(ks, f) : ks \in KeySeqs(SearchKeys, Len(f))} : f \in fs}

SearchAliases == {<<"a", "b">>, <<"b", "a">>}

EmptyRecord ==
    [createdDate |-> None, updatedDate |-> None, expiresDate |-> None,
     registrarName |-> None, whoisServer |-> None, registrant |-> None,
     country |-> None, countryCode |-> None, registrarIANAID |-> None,
     nameservers |-> None]

Locals(rec, reg, raw, items, ns) ==
    /\ parsed_data = rec
    /\ registrant_info = reg
    /\ raw_nameservers = raw
    /\ items_to_process = items
    /\ nameserver_list = ns

\* The document is any tree of at most MaxNodes nodes: a leaf, or a list or a
\* dict whose first value has k nodes and whose other values have m - k.
SearchInit ==
    /\ \/ whois_data \in SearchLeaves
       \/ \E m \in 1..(MaxNodes - 1) : \E k \in 1..m :
            \E tr \in TreesOfSize(k), f \in ForestsOfSize(m - k) :
               \/ whois_data = List(<<tr>> \o f)
               \/ \E ks \in KeySeqs(SearchKeys, Len(f) + 1) :
                     whois_data = Map(ks, <<tr>> \o f)
    /\ pc = "idle"
    /\ target = <<>>
    /\ result = None
    /\ Locals(EmptyRecord, None, None, <<>>, <<>>)

\* One call of _find_key_recursively on the document
CallFind(k) ==
    /\ pc = "idle"
    /\ pc' = "found"
    /\ target' = <<k>>
    /\ result' = _find_key_recursively(whois_data, k)
    /\ UNCHANGED <<whois_data, parsed_data, registrant_info, raw_nameservers,
                   items_to_process, nameserver_list>>

\* One call of _get_value
CallGetValue(keys) ==
    /\ pc = "idle"
    /\ pc' = "resolved"
    /\ target' = keys
    /\ result' = _get_value(whois_data, keys)
    /\ UNCHANGED <<whois_data, parsed_data, registrant_info, raw_nameservers,
                   items_to_process, nameserver_list>>

SearchNext ==
    \/ \E k \in SearchKeys : CallFind(k)
    \/ \E keys \in SearchAliases : CallGetValue(keys)

SpecSearch == SearchInit /\ [][SearchNext]_vars

---------------------------------------------------------------------------
(* Strings: str.lower(), str.strip(), re.split(r'[,\s\n]+', s), ", ".join *)

\* str.lower() on one character
ToLower(c) == IF c = "A" THEN "a" ELSE IF c = "B" THEN "b" ELSE c

StrLower(cs) == [i \in 1..Len(cs) |-> ToLower(cs[i])]

\* What \s matches and what strip() strips
IsSpace(c) == c \in {" ", "\t", "\n", "\r"}

\* The class [,\s\n]
IsDelimiter(c) == c = "," \/ IsSpace(c)

Min(S) == CHOOSE x \in S : \A y \in S : x <= y

Max(S) == CHOOSE x \in S : \A y \in S : x >= y

StrStrip(cs) ==
    LET solid == {i \in 1..Len(cs) : ~IsSpace(cs[i])}
    IN IF solid = {} THEN <<>> ELSE SubSeq(cs, Min(solid), Max(solid))

RECURSIVE SplitFrom(_, _, _, _)
\* re.split from the i-th character on, `cur` being the piece read so far and
\* in_run telling that the character before was a delimiter. A run of
\* delimiters ends one piece and starts the next, so a string that starts or
\* ends with a delimiter yields an empty first or last piece.
SplitFrom(cs, i, cur, in_run) ==
    IF i > Len(cs) THEN <<cur>>
    ELSE IF IsDelimiter(cs[i])
         THEN IF in_run THEN SplitFrom(cs, i + 1, cur, TRUE)
              ELSE <<cur>> \o SplitFrom(cs, i + 1, <<>>, TRUE)
         ELSE SplitFrom(cs, i + 1, Append(cur, cs[i]), FALSE)

ReSplit(cs) == SplitFrom(cs, 1, <<>>, FALSE)

RECURSIVE JoinSemicolon(_)
\* A join with "; " between the items
JoinSemicolon(xs) ==
    IF xs = <<>> THEN <<>>
    ELSE IF Len(xs) = 1 THEN xs[1]
    ELSE xs[1] \o <<";", " ">> \o JoinSemicolon(Tail(xs))

RECURSIVE JoinNs(_)
\* ", ".join(xs)
JoinNs(xs) ==
    IF xs = <<>> THEN <<>>
    ELSE IF Len(xs) = 1 THEN xs[1]
    ELSE xs[1] \o <<",", " ">> \o JoinNs(Tail(xs))

---------------------------------------------------------------------------
(* parse_whois_json *)

CreatedDateKeys == <<"creation_date", "creationDate", "created_date", "created">>

UpdatedDateKeys == <<"updated_date", "updatedDate", "last_updated", "updated">>

ExpiresDateKeys ==
    <<"expiration_date", "expirationDate", "expires_date", "expires", "expiry_date">>

RegistrarNameKeys == <<"registrar", "registrar_name", "registrarName">>

WhoisServerKeys == <<"whois_server", "whoisServer">>

RegistrarIANAIDKeys == <<"registrar_iana_id", "registrarIANAID", "ianaid">>

RegistrantKeys == <<"registrant", "registrant_name", "registrantName">>

\* The country keys with the bare one tried first
CountryKeysBareFirst == <<"country", "registrant_country">>

CountryKeys == <<"registrant_country", "country">>

CountryCodeKeys == <<"registrant_country_code", "country_code", "countryCode">>

\* The nameserver keys with hostNames among them
NameserverKeysWithHostNames ==
    <<"name_servers", "nameservers", "nserver", "nameServers", "nameserver_info",
      "hostNames">>

NameserverKeys ==
    <<"name_servers", "nameservers", "nserver", "nameServers", "nameserver_info">>

\* Lines 70-76: the name out of what the registrant keys resolved to
RegistrantName(info) ==
    IF IsDict(info) THEN Or(DictGet(info, "name"), DictGet(info, "organization"))
    ELSE IF IsStr(info) THEN info
    ELSE None

\* Lines 92-102: the items to walk, as long as raw_nameservers is truthy
ItemsToProcess(raw) ==
    IF ~Truthy(raw) THEN <<>>
    ELSE IF IsStr(raw)
         THEN LET pieces == ReSplit(raw.s)
              IN [i \in 1..Len(pieces) |-> Str(pieces[i])]
    ELSE IF IsList(raw) THEN raw.kids
    ELSE LET hostnames == DictGet(raw, "hostNames")
         IN IF Truthy(hostnames) /\ IsList(hostnames) THEN hostnames.kids ELSE <<>>

RECURSIVE ProcessFrom(_, _, _)
\* Lines 105-114: the loop over items_to_process from the i-th item on, `acc`
\* being nameserver_list so far
ProcessFrom(items, i, acc) ==
    IF i > Len(items) THEN acc
    ELSE LET item == items[i]
             name == Or(DictGet(item, "name"), DictGet(item, "hostname"))
         IN IF ~Truthy(item) THEN ProcessFrom(items, i + 1, acc)
            ELSE IF IsStr(item)
                 THEN ProcessFrom(items, i + 1, Append(acc, StrStrip(StrLower(item.s))))
            ELSE IF IsDict(item) /\ Truthy(name) /\ IsStr(name)
                 THEN ProcessFrom(items, i + 1, Append(acc, StrStrip(StrLower(name.s))))
            ELSE ProcessFrom(items, i + 1, acc)

RECURSIVE UniqueKeepLastFrom(_, _)
UniqueKeepLastFrom(xs, i) ==
    IF i > Len(xs) THEN <<>>
    ELSE IF xs[i] # <<>> /\ \A j \in (i + 1)..Len(xs) : xs[j] # xs[i]
         THEN <<xs[i]>> \o UniqueKeepLastFrom(xs, i + 1)
         ELSE UniqueKeepLastFrom(xs, i + 1)

\* A removal of duplicates that keeps the last of each
UniqueNsKeepLast(xs) == UniqueKeepLastFrom(xs, 1)

RECURSIVE UniqueFrom(_, _, _)
\* Line 119 from the i-th x on: x is kept when it is not empty and not in
\* `seen`, and is then added to `seen`
UniqueFrom(xs, i, seen) ==
    IF i > Len(xs) THEN <<>>
    ELSE IF xs[i] # <<>> /\ xs[i] \notin seen
         THEN <<xs[i]>> \o UniqueFrom(xs, i + 1, seen \cup {xs[i]})
         ELSE UniqueFrom(xs, i + 1, seen)

\* Lines 118-119: unique_ns
UniqueNs(xs) == UniqueFrom(xs, 1, {})

\* Lines 117-122: the nameservers field
FormatNameservers(ns_list) ==
    IF ns_list # <<>> THEN Str(JoinNs(UniqueNs(ns_list))) ELSE None

\* Lines 58-60
ResolveDates ==
    /\ pc = "start"
    /\ pc' = "registrar"
    /\ parsed_data' =
         [parsed_data EXCEPT !.createdDate = _get_value(whois_data, CreatedDateKeys),
                             !.updatedDate = _get_value(whois_data, UpdatedDateKeys),
                             !.expiresDate = _get_value(whois_data, ExpiresDateKeys)]
    /\ UNCHANGED <<whois_data, target, result, registrant_info, raw_nameservers,
                   items_to_process, nameserver_list>>

\* Lines 63-65
ResolveRegistrar ==
    /\ pc = "registrar"
    /\ pc' = "registrant"
    /\ parsed_data' =
         [parsed_data EXCEPT
            !.registrarName = _get_value(whois_data, RegistrarNameKeys),
            !.whoisServer = _get_value(whois_data, WhoisServerKeys),
            !.registrarIANAID = _get_value(whois_data, RegistrarIANAIDKeys)]
    /\ UNCHANGED <<whois_data, target, result, registrant_info, raw_nameservers,
                   items_to_process, nameserver_list>>

\* Lines 68-78
ResolveRegistrant ==
    /\ pc = "registrant"
    /\ pc' = "country"
    /\ registrant_info' = _get_value(whois_data, RegistrantKeys)
    /\ parsed_data' = [parsed_data EXCEPT !.registrant = RegistrantName(registrant_info')]
    /\ UNCHANGED <<whois_data, target, result, raw_nameservers, items_to_process,
                   nameserver_list>>

\* Lines 79-83
ResolveCountry ==
    /\ pc = "country"
    /\ pc' = "nameservers"
    /\ parsed_data' =
         [parsed_data EXCEPT !.country = _get_value(whois_data, CountryKeys),
                             !.countryCode = _get_value(whois_data, CountryCodeKeys)]
    /\ UNCHANGED <<whois_data, target, result, registrant_info, raw_nameservers,
                   items_to_process, nameserver_list>>

\* Lines 87-102
FindNameservers ==
    /\ pc = "nameservers"
    /\ pc' = "process"
    /\ raw_nameservers' = _get_value(whois_data, NameserverKeys)
    /\ items_to_process' = ItemsToProcess(raw_nameservers')
    /\ UNCHANGED <<whois_data, target, result, parsed_data, registrant_info,
                   nameserver_list>>

\* Lines 105-114
ProcessItems ==
    /\ pc = "process"
    /\ pc' = "format"
    /\ nameserver_list' = ProcessFrom(items_to_process, 1, <<>>)
    /\ UNCHANGED <<whois_data, target, result, parsed_data, registrant_info,
                   raw_nameservers, items_to_process>>

\* Lines 117-124
SetNameservers ==
    /\ pc = "format"
    /\ pc' = "done"
    /\ parsed_data' = [parsed_data EXCEPT !.nameservers = FormatNameservers(nameserver_list)]
    /\ UNCHANGED <<whois_data, target, result, registrant_info, raw_nameservers,
                   items_to_process, nameserver_list>>

Next ==
    \/ ResolveDates
    \/ ResolveRegistrar
    \/ ResolveRegistrant
    \/ ResolveCountry
    \/ FindNameservers
    \/ ProcessItems
    \/ SetNameservers

---------------------------------------------------------------------------
(* Documents for parse_whois_json *)

\* The most characters in the strings of one nameserver value
MaxChars == 3

\* The most entries in a dict, or items in a list of mixed shapes
MaxEntries == 2

Chars == {"A", "a", "b", " ", ","}

StrsOfLen(n) == [1..n -> Chars]

RECURSIVE StrListsOf(_)
\* The lists of non-empty strings with c characters in all
StrListsOf(c) ==
    IF c = 0 THEN {<<>>}
    ELSE UNION {{<<Str(cs)>> \o l : cs \in StrsOfLen(n), l \in StrListsOf(c - n)}
                : n \in 1..c}

NsStrs(c) == UNION {{Str(cs) : cs \in StrsOfLen(n)} : n \in 0..c}

NsStrLists(c) == UNION {{List(l) : l \in StrListsOf(n)} : n \in 0..c}

\* Items of other shapes: falsy ones, dicts with and without a usable name
OddItems ==
    {None, Str(<<>>), Str(<<"a">>), Map(<<>>, <<>>), List(<<Str(<<"a">>)>>),
     Map(<<"name">>, <<Str(<<"A", " ">>)>>),
     Map(<<"name">>, <<Str(<<" ">>)>>),
     Map(<<"hostname">>, <<Str(<<"b">>)>>),
     Map(<<"name", "hostname">>, <<Str(<<>>), Str(<<"B">>)>>),
     Map(<<"hostname", "name">>, <<Str(<<"b">>), Str(<<"a">>)>>),
     Map(<<"name">>, <<List(<<Str(<<"a">>)>>)>>),
     Map(<<"host">>, <<Str(<<"a">>)>>)}

OddLists == UNION {{List(l) : l \in [1..n -> OddItems]} : n \in 1..MaxEntries}

\* What a nameserver key may hold: a string, a list, or a dict with or without
\* hostNames, directly or one level down
NsPlain == NsStrs(MaxChars) \cup NsStrLists(MaxChars) \cup OddLists \cup {None}

NsInner == NsStrs(MaxChars - 1) \cup NsStrLists(MaxChars - 1) \cup {None}

NsDicts ==
    {Map(<<"hostNames">>, <<r>>) : r \in NsInner}
    \cup {Map(<<"info">>, <<Map(<<"hostNames">>, <<r>>)>>) : r \in NsInner}
    \cup {Map(<<"count", "hostNames">>, <<Str(<<"a">>), r>>) : r \in NsInner}
    \cup {Map(<<>>, <<>>)}

\* Every value under the key nameservers; the shorter ones under each of the
\* other nameserver keys, under hostNames and under a key of no field
NsDocKeys == Range(NameserverKeys) \cup {"hostNames", "domain"}

NsDocs ==
    {Map(<<"nameservers">>, <<r>>) : r \in NsPlain \cup NsDicts}
    \cup {Map(<<k>>, <<r>>) : k \in NsDocKeys, r \in NsInner \cup NsDicts}

\* What a registrant key may hold
RegistrantParts ==
    {None, Str(<<>>), Str(<<"a">>), Str(<<"b">>), List(<<Str(<<"a">>)>>),
     Map(<<>>, <<>>), Map(<<"first">>, <<Str(<<"a">>)>>)}

RegistrantDicts ==
    UNION {{Map(ks, vs) : ks \in KeySeqs({"name", "organization", "email"}, n),
                          vs \in [1..n -> RegistrantParts]} : n \in 0..MaxEntries}

RegistrantDocs ==
    {Map(<<"registrant">>, <<r>>) : r \in RegistrantDicts}
    \cup {Map(<<k>>, <<r>>) : k \in Range(RegistrantKeys) \cup {"domain"},
                              r \in {None, Str(<<>>), Str(<<"a">>),
                                     List(<<Str(<<"a">>)>>), Map(<<>>, <<>>),
                                     Map(<<"name">>, <<Str(<<"a">>)>>),
                                     Map(<<"organization">>, <<Str(<<"b">>)>>),
                                     Map(<<"email">>, <<Str(<<"b">>)>>)}}

\* What the key of a simple field may hold
SimpleValues ==
    {None, Str(<<"a">>), List(<<Str(<<"b">>)>>), Map(<<"value">>, <<Str(<<"b">>)>>)}

SimpleKeyLists ==
    {CreatedDateKeys, UpdatedDateKeys, ExpiresDateKeys, RegistrarNameKeys,
     WhoisServerKeys, RegistrarIANAIDKeys, CountryKeys, CountryCodeKeys}

\* The dicts of at most MaxEntries entries over the keys of one simple field,
\* and the one-entry ones inside a list or a dict
SimpleDicts(keys) ==
    UNION {{Map(ks, vs) : ks \in KeySeqs(Range(keys), n),
                          vs \in [1..n -> SimpleValues]} : n \in 0..MaxEntries}

SimpleDocs ==
    UNION {SimpleDicts(keys) : keys \in SimpleKeyLists}
    \cup UNION {{List(<<Str(<<"b">>), Map(<<k>>, <<v>>)>>) : k \in Range(keys), v \in SimpleValues}
                : keys \in SimpleKeyLists}
    \cup UNION {{Map(<<"domain", "result">>, <<Str(<<"b">>), Map(<<k>>, <<v>>)>>)
                 : k \in Range(keys), v \in SimpleValues} : keys \in SimpleKeyLists}

Init ==
    /\ whois_data \in NsDocs \cup RegistrantDocs \cup SimpleDocs
    /\ pc = "start"
    /\ target = <<>>
    /\ result = None
    /\ Locals(EmptyRecord, None, None, <<>>, <<>>)

Spec == Init /\ [][Next]_vars

---------------------------------------------------------------------------
(* Positions in a document, for stating what the search returns *)

RECURSIVE KeysOf(_)
\* Every key of every dict of the document
KeysOf(v) == Range(v.keys) \cup UNION {KeysOf(v.kids[i]) : i \in 1..Len(v.kids)}

RECURSIVE NodePaths(_)
\* The path of a node is the sequence of child numbers leading to it.
NodePaths(v) ==
    {<<>>} \cup UNION {{<<i>> \o p : p \in NodePaths(v.kids[i])} : i \in 1..Len(v.kids)}

RECURSIVE NodeAt(_, _)
NodeAt(v, p) == IF p = <<>> THEN v ELSE NodeAt(v.kids[Head(p)], Tail(p))

IsProperPrefix(q, p) == Len(q) < Len(p) /\ SubSeq(p, 1, Len(q)) = q

\* p comes before q in a pre-order, depth-first, insertion-order walk
Before(p, q) ==
    LET n == IF Len(p) < Len(q) THEN Len(p) ELSE Len(q)
        d == {i \in 1..n : p[i] # q[i]}
    IN IF d = {} THEN Len(p) < Len(q) ELSE p[Min(d)] < q[Min(d)]

\* The dicts that hold `key` directly, and the place of the entry itself
Holders(v, key) ==
    {p \in NodePaths(v) : IsDict(NodeAt(v, p)) /\ HasKey(NodeAt(v, p), key)}

EntryPath(v, p, key) ==
    LET d == NodeAt(v, p)
    IN p \o <<CHOOSE i \in 1..Len(d.keys) : d.keys[i] = key>>

ValueAt(v, p, key) == Item(NodeAt(v, p), key)

\* The entries for `key` with a value, every one of them, and the value of the
\* one a pre-order walk meets first
FirstInPreOrder(v, key) ==
    LET occ == {p \in Holders(v, key) : ValueAt(v, p, key) # None}
    IN IF occ = {} THEN None
       ELSE ValueAt(v, CHOOSE p \in occ : \A q \in occ \ {p} :
                            Before(EntryPath(v, p, key), EntryPath(v, q, key)), key)

\* The holders of `key` that lie in no other holder: a dict's own entry hides
\* whatever its values hold.
Outermost(v, key) ==
    {p \in Holders(v, key) :
        \A n \in 0..(Len(p) - 1) : ~HasKey(NodeAt(v, SubSeq(p, 1, n)), key)}

FirstOutermost(v, key) ==
    LET occ == {p \in Outermost(v, key) : ValueAt(v, p, key) # None}
    IN IF occ = {} THEN None
       ELSE ValueAt(v, CHOOSE p \in occ : \A q \in occ \ {p} : Before(p, q), key)

\* No dict of the document holds one of `keys` with null
NoNullAlias(v, keys) ==
    \A i \in 1..Len(keys) : \A p \in Holders(v, keys[i]) : ValueAt(v, p, keys[i]) # None

\* The container without its first i values
DropFirst(data, i) ==
    [data EXCEPT !.keys = IF IsDict(data) THEN SubSeq(data.keys, i + 1, Len(data.keys))
                          ELSE <<>>,
                 !.kids = SubSeq(data.kids, i + 1, Len(data.kids))]

---------------------------------------------------------------------------
(* C1 *)

---------------------------------------------------------------------------
(* C9 *)

\* C9: a dict that holds the key directly answers with that entry's value as
\* it is, whatever its other values (inserted before or after) and the matched
\* value itself hold.
C9_DirectEntryWins ==
    (pc = "found" /\ IsDict(whois_data) /\ HasKey(whois_data, target[1]))
        => result = Item(whois_data, target[1])

\* The direct entry was returned though a value inserted before it holds the
\* key with another value.
C9_DirectOverEarlierNested ==
    /\ pc = "found"
    /\ IsDict(whois_data)
    /\ HasKey(whois_data, target[1])
    /\ result = Item(whois_data, target[1])
    /\ \E i \in 1..Len(whois_data.kids) :
          /\ whois_data.keys[i] # target[1]
          /\ \E j \in (i + 1)..Len(whois_data.keys) : whois_data.keys[j] = target[1]
          /\ FirstOutermost(whois_data.kids[i], target[1]) # None
          /\ FirstOutermost(whois_data.kids[i], target[1]) # result

---------------------------------------------------------------------------
(* C10 *)

\* C10: a key held with null counts as not found. A dict holding the key
\* directly with null answers None, whatever its other values hold; a container
\* around such a dict goes on with the values after it; _get_value goes on to
\* its next key.
C10_NullIsNotFound ==
    /\ (pc = "found" /\ IsDict(whois_data) /\ HasKey(whois_data, target[1])
          /\ Item(whois_data, target[1]) = None)
         => result = None
    /\ (pc = "found" /\ ~HasKey(whois_data, target[1]))
         => \A i \in 1..Len(whois_data.kids) :
               ( /\ IsDict(whois_data.kids[i])
                 /\ HasKey(whois_data.kids[i], target[1])
                 /\ Item(whois_data.kids[i], target[1]) = None
                 /\ \A j \in 1..(i - 1) : target[1] \notin KeysOf(whois_data.kids[j]) )
               => result = FirstOutermost(DropFirst(whois_data, i), target[1])
    /\ (pc = "resolved" /\ IsDict(whois_data) /\ HasKey(whois_data, target[1])
          /\ Item(whois_data, target[1]) = None)
         => result = FirstOutermost(whois_data, target[2])

\* None was returned by a dict that holds the key with null and, under another
\* key, a dict that holds it with a value.
C10_NullHidesNested ==
    /\ pc = "found"
    /\ IsDict(whois_data)
    /\ HasKey(whois_data, target[1])
    /\ Item(whois_data, target[1]) = None
    /\ \E p \in Holders(whois_data, target[1]) :
          p # <<>> /\ ValueAt(whois_data, p, target[1]) # None
    /\ result = None

---------------------------------------------------------------------------
(* C2 *)

\* The keys of `keys` that some dict of the document holds, by position
Occurring(v, keys) == {i \in 1..Len(keys) : keys[i] \in KeysOf(v)}

\* The keys of `keys` the search finds with a value, by position
Found(v, keys) ==
    {i \in 1..Len(keys) : keys[i] \in KeysOf(v) /\ FirstOutermost(v, keys[i]) # None}

\* C2, as stated: resolve returns the find-result of the first alias, in list
\* order, that occurs as a key anywhere in the tree, and is absent only if no
\* alias occurs anywhere.
C2_FirstOccurringAlias ==
    pc = "resolved" =>
        LET occ == Occurring(whois_data, target)
        IN /\ occ # {} => result = FirstOutermost(whois_data, target[Min(occ)])
           /\ result = None => occ = {}

\* C2, amended: resolve returns the find-result of the first alias, in list
\* order, whose find-result is not absent, and is absent exactly when every
\* alias's is; an alias found only with null counts as missing. When no alias
\* is held with null anywhere, that is the first alias that occurs as a key
\* anywhere, and the result is absent only if none occurs.
C2_FirstFoundAlias ==
    pc = "resolved" =>
        LET hit == Found(whois_data, target)
            occ == Occurring(whois_data, target)
        IN /\ hit = {} => result = None
           /\ hit # {} => /\ result = FirstOutermost(whois_data, target[Min(hit)])
                          /\ result # None
           /\ NoNullAlias(whois_data, target) => hit = occ

\* The first alias was returned from inside a value of the top-level dict,
\* though the second alias is a key of the top-level dict itself.
C2_EarlierAliasWins ==
    /\ pc = "resolved"
    /\ IsDict(whois_data)
    /\ HasKey(whois_data, target[2])
    /\ ~HasKey(whois_data, target[1])
    /\ Item(whois_data, target[2]) # None
    /\ FirstOutermost(whois_data, target[1]) # None
    /\ result = FirstOutermost(whois_data, target[1])
    /\ result # Item(whois_data, target[2])

---------------------------------------------------------------------------
(* C3 *)

\* C3: the nameservers field is absent or a non-empty string of hostnames
\* joined with ", "; it is never the empty string.
C3_NameserversNeverEmpty ==
    pc = "done" =>
        \/ parsed_data.nameservers = None
        \/ IsStr(parsed_data.nameservers) /\ parsed_data.nameservers.s # <<>>

---------------------------------------------------------------------------
(* C4 *)

\* The lowercased, trimmed items of a list of strings
Hostnames(items) == [i \in 1..Len(items) |-> StrStrip(StrLower(items[i].s))]

\* The places of xs that hold a hostname not held by an earlier place
FirstPlaces(xs) == {i \in 1..Len(xs) : xs[i] # <<>> /\ \A j \in 1..(i - 1) : xs[j] # xs[i]}

RECURSIVE JoinPlaces(_, _)
\* The hostnames at the places P, in order, with ", " between them
JoinPlaces(xs, P) ==
    IF P = {} THEN <<>>
    ELSE IF Cardinality(P) = 1 THEN xs[Max(P)]
    ELSE JoinPlaces(xs, P \ {Max(P)}) \o <<",", " ">> \o xs[Max(P)]

IsStrList(v) == IsList(v) /\ \A i \in 1..Len(v.kids) : IsStr(v.kids[i])

\* C4: for a resolved list of strings, the nameservers field is the ", "-join
\* of the lowercased, trimmed items, each hostname once, at the place of its
\* first occurrence. (With no hostname left there is nothing to join; whether
\* the field is then absent is C3's.)
C4_StableDedup ==
    (pc = "done" /\ IsStrList(raw_nameservers)) =>
        LET xs == Hostnames(raw_nameservers.kids)
        IN IF FirstPlaces(xs) = {}
           THEN parsed_data.nameservers \in {None, Str(<<>>)}
           ELSE parsed_data.nameservers = Str(JoinPlaces(xs, FirstPlaces(xs)))

\* A list whose first two items are one hostname in two spellings and whose
\* third is another hostname came out as the two hostnames, in that order.
C4_DuplicateDropped ==
    /\ pc = "done"
    /\ IsStrList(raw_nameservers)
    /\ Len(raw_nameservers.kids) = 3
    /\ LET xs == Hostnames(raw_nameservers.kids)
       IN /\ raw_nameservers.kids[1] # raw_nameservers.kids[2]
          /\ xs[1] = xs[2]
          /\ xs[1] # <<>>
          /\ xs[3] # <<>>
          /\ xs[3] # xs[1]
          /\ parsed_data.nameservers = Str(xs[1] \o <<",", " ">> \o xs[3])

---------------------------------------------------------------------------
(* C5 *)

\* The nameserver_list and the field the code makes of the string cs
ListOfStr(cs) == ProcessFrom(ItemsToProcess(Str(cs)), 1, <<>>)

Renormalized(cs) == FormatNameservers(ListOfStr(cs))

HasDelimiter(cs) == \E i \in 1..Len(cs) : IsDelimiter(cs[i])

Present(v) == IsStr(v) /\ v.s # <<>>

\* C5, as stated: whatever the resolved value (a string, a list or a dict), a
\* present nameservers string S, normalized again as a string, yields the
\* hostnames S was built from and the string S.
C5_Idempotent ==
    (pc = "done" /\ Present(parsed_data.nameservers)) =>
        /\ Renormalized(parsed_data.nameservers.s) = parsed_data.nameservers
        /\ Range(UniqueNs(ListOfStr(parsed_data.nameservers.s)))
             = Range(UniqueNs(nameserver_list))

\* C5, amended: a present nameservers string S, normalized again as a string,
\* yields the hostnames S was built from and the string S, provided no
\* hostname it was built from has a comma or whitespace inside; that is so
\* whenever the resolved value is a string.
C5_IdempotentOnPlainHostnames ==
    /\ (pc = "done" /\ Present(parsed_data.nameservers)
          /\ \A i \in 1..Len(nameserver_list) : ~HasDelimiter(nameserver_list[i]))
         => /\ Renormalized(parsed_data.nameservers.s) = parsed_data.nameservers
            /\ Range(UniqueNs(ListOfStr(parsed_data.nameservers.s)))
                 = Range(UniqueNs(nameserver_list))
    /\ (pc = "done" /\ IsStr(raw_nameservers))
         => \A i \in 1..Len(nameserver_list) : ~HasDelimiter(nameserver_list[i])

\* A resolved string was normalized into two hostnames, and into another
\* string than it was.
C5_StringNormalized ==
    /\ pc = "done"
    /\ IsStr(raw_nameservers)
    /\ Present(parsed_data.nameservers)
    /\ parsed_data.nameservers # raw_nameservers
    /\ Len(UniqueNs(nameserver_list)) = 2
    /\ Renormalized(parsed_data.nameservers.s) = parsed_data.nameservers

---------------------------------------------------------------------------
(* C6 *)

\* A string that is there and not empty
IsName(v) == IsStr(v) /\ v.s # <<>>

\* C6: the registrant field is absent or a string: for a resolved dict the
\* string under name when present and non-empty, otherwise the string under
\* organization when present and non-empty, otherwise absent; a resolved
\* string itself; absent for any other shape.
C6_RegistrantIsNameOrOrganization ==
    pc = "done" =>
        /\ parsed_data.registrant = None \/ IsStr(parsed_data.registrant)
        /\ parsed_data.registrant =
             IF IsDict(registrant_info)
             THEN IF IsName(DictGet(registrant_info, "name"))
                  THEN DictGet(registrant_info, "name")
                  ELSE IF IsName(DictGet(registrant_info, "organization"))
                       THEN DictGet(registrant_info, "organization")
                       ELSE None
             ELSE IF IsStr(registrant_info) THEN registrant_info
             ELSE None

---------------------------------------------------------------------------
(* C7 *)

\* C7: with none of the five nameserver keys anywhere in the tree the
\* nameservers field is absent, whatever a key hostNames holds at the top or
\* elsewhere; hostNames counts only as a direct key of the resolved dict.
C7_HostNamesOnlyInsideResolved ==
    /\ (pc = "done"
          /\ KeysOf(whois_data) \cap {"name_servers", "nameservers", "nserver",
                                      "nameServers", "nameserver_info"} = {})
         => parsed_data.nameservers = None
    /\ (pc = "done" /\ IsDict(raw_nameservers) /\ ~HasKey(raw_nameservers, "hostNames"))
         => parsed_data.nameservers = None

\* A top-level hostNames holding a list of hostnames was left alone.
C7_TopLevelHostNamesIgnored ==
    /\ pc = "done"
    /\ IsDict(whois_data)
    /\ HasKey(whois_data, "hostNames")
    /\ IsStrList(Item(whois_data, "hostNames"))
    /\ FirstPlaces(Hostnames(Item(whois_data, "hostNames").kids)) # {}
    /\ parsed_data.nameservers = None

---------------------------------------------------------------------------
(* C8 *)

\* The alias lists of section 6 of the specification, by field
SimpleAliases ==
    [createdDate |-> <<"creation_date", "creationDate", "created_date", "created">>,
     updatedDate |-> <<"updated_date", "updatedDate", "last_updated", "updated">>,
     expiresDate |-> <<"expiration_date", "expirationDate", "expires_date",
                       "expires", "expiry_date">>,
     registrarName |-> <<"registrar", "registrar_name", "registrarName">>,
     whoisServer |-> <<"whois_server", "whoisServer">>,
     registrarIANAID |-> <<"registrar_iana_id", "registrarIANAID", "ianaid">>,
     country |-> <<"registrant_country", "country">>,
     countryCode |-> <<"registrant_country_code", "country_code", "countryCode">>]

\* The positions at which a field has been assigned
AssignedAt ==
    [createdDate |-> {"registrar", "registrant", "country", "nameservers", "process",
                      "format", "done"},
     updatedDate |-> {"registrar", "registrant", "country", "nameservers", "process",
                      "format", "done"},
     expiresDate |-> {"registrar", "registrant", "country", "nameservers", "process",
                      "format", "done"},
     registrarName |-> {"registrant", "country", "nameservers", "process", "format",
                        "done"},
     whoisServer |-> {"registrant", "country", "nameservers", "process", "format",
                      "done"},
     registrarIANAID |-> {"registrant", "country", "nameservers", "process", "format",
                          "done"},
     country |-> {"nameservers", "process", "format", "done"},
     countryCode |-> {"nameservers", "process", "format", "done"}]

\* resolve: the find-result of the first alias that has one
Resolved(v, keys) ==
    IF Found(v, keys) = {} THEN None
    ELSE FirstOutermost(v, keys[Min(Found(v, keys))])

\* C8: each of the eight simple fields holds resolve(tree, its alias list in
\* the order of section 6), unchanged whatever its shape, and is absent when no
\* alias matches: from its assignment on, whatever is assigned after it, and
\* as a function of the tree and its own alias list alone.
C8_SimpleFieldsAreResolved ==
    \A f \in DOMAIN SimpleAliases :
        parsed_data[f] = IF pc \in AssignedAt[f]
                         THEN Resolved(whois_data, SimpleAliases[f])
                         ELSE None

\* The country field holds a list or a dict, taken from the first alias though
\* the second alias stands before it in the document with another value.
C8_FirstAliasStoredAsIs ==
    /\ pc = "done"
    /\ IsDict(whois_data)
    /\ whois_data.keys = <<"country", "registrant_country">>
    /\ whois_data.kids[1] # None
    /\ whois_data.kids[1] # whois_data.kids[2]
    /\ ~IsStr(whois_data.kids[2])
    /\ parsed_data.country = whois_data.kids[2]
    /\ parsed_data.country # None
    /\ parsed_data.countryCode = None

=============================================================================
